---- MODULE Spec2Model ----
(***************************************************************************)
(* Semantic-model tooling of the repository:                               *)
(*   scripts/manage_semantic_model.py  (SemanticModelManager, main)        *)
(*   scripts/split_semantic_model.py   (SemanticModelSplitter, main)       *)
(*   scripts/merge_semantic_models.py  (SemanticModelMerger, main)         *)
(*                                                                         *)
(* A parsed YAML value is a record of fixed shape, so that values of       *)
(* different YAML types stay comparable:                                   *)
(*   top        the Python type of the top-level value                     *)
(*   keys       the names k for which `k in value` is True                 *)
(*   name, description, tables, instructions, verified_queries             *)
(*              the values under those keys (a default when absent)        *)
(*   tablesKind the Python type of the value under `tables`                *)
(*   nullKeys   the optional keys whose value is None                      *)
(* Every command-line run is one action: a run is a fresh process, and     *)
(* only the files and the exit status survive it.                          *)
(***************************************************************************)
EXTENDS Integers, Sequences, FiniteSets, TLC

(***************************************************************************)
(* Bounds                                                                  *)
(***************************************************************************)
MaxTables == 2

\* The most sessions the service wrappers create in one behaviour.
MaxSessions == 3

\* The longest sql text of the documents whose sql is normalized.
MaxSqlLen == 4

(***************************************************************************)
(* YAML values                                                             *)
(***************************************************************************)
NoName == ""

TableNames == {"T1", "T2"}

BaseTableFields == {"database", "schema", "table"}

\* base_table values: a mapping with some of the three sub-fields, or a
\* value that is not a mapping (bkeys is then empty).
\* A base_table value: bkeys are the sub-fields it has, vals their values
\* ("" for a sub-field it lacks).
BaseTable(isMap, bkeys, database, schema, table) ==
    [isMap |-> isMap, bkeys |-> bkeys,
     vals |-> [database |-> database, schema |-> schema, table |-> table]]

FullBase == BaseTable(TRUE, BaseTableFields, "D0", "S0", "P0")

NoBase == BaseTable(FALSE, {}, "", "", "")

BaseTables ==
    { FullBase, BaseTable(TRUE, {"database", "table"}, "D0", "", "P0"), NoBase }

ListFields == {"dimensions", "time_dimensions", "measures"}

\* The lengths of the three list-valued fields of a table: 0 for a field
\* that is absent or empty, -1 for a value that has no length (None).
NoLists == [f \in ListFields |-> 0]

\* An element of `tables`: tkeys is the set of keys the mapping has.
Table(isMap, tkeys, name, base_table) ==
    [isMap |-> isMap, tkeys |-> tkeys, name |-> name, base_table |-> base_table,
     description |-> "", lens |-> NoLists]

\* An element of `tables` that is not a mapping (a scalar, a list).
NotDictTable == Table(FALSE, {}, NoName, NoBase)

\* A table with k dimensions (-1: `dimensions:` without a value) and one
\* measure.
MeasuredTable(k) ==
    [isMap |-> TRUE, tkeys |-> {"name", "base_table", "dimensions", "measures"},
     name |-> "T1", base_table |-> FullBase, description |-> "",
     lens |-> [f \in ListFields |->
                 IF f = "dimensions" THEN k ELSE IF f = "measures" THEN 1 ELSE 0]]

TableValues ==
    {NotDictTable}
    \cup { Table(TRUE, {}, NoName, NoBase) }
    \cup { Table(TRUE, {"name"}, n, NoBase) : n \in TableNames }
    \cup { Table(TRUE, {"base_table"}, NoName, b) : b \in BaseTables }
    \cup { Table(TRUE, {"name", "base_table"}, n, b) : n \in TableNames, b \in BaseTables }
    \cup { MeasuredTable(k) : k \in {2, -1} }

SeqsUpTo(S, n) == UNION { [1..k -> S] : k \in 0..n }

\* Characters of an sql text: the letter n, a space, a line break and a
\* backslash (a backslash followed by n is an escaped newline).
SqlChars == {"n", "SP", "NL", "BS"}

\* The sql texts of the documents that are split: empty, an escaped
\* newline between two letters, spaces around a letter, a blank line.
SqlSamples ==
    { << >>, << "n", "BS", "n", "n" >>, << "SP", "n", "SP" >>, << "n", "NL", "NL", "n" >> }

\* A verified-query entry: a mapping with `question` and, when hasSql, a
\* string `sql`.
Query(q, hasSql, sql) == [question |-> q, hasSql |-> hasSql, sql |-> sql]

RequiredFields == {"name", "description", "tables"}

OptionalFields == {"instructions", "verified_queries"}

\* The parsed document: see the header for the meaning of the fields.
MkDoc(top, keys, name, description, tablesKind, tables, instructions, verified_queries) ==
    [top |-> top, keys |-> keys, name |-> name, description |-> description,
     tablesKind |-> tablesKind, tables |-> tables,
     instructions |-> instructions, verified_queries |-> verified_queries,
     nullKeys |-> {}]

\* yaml.safe_load of an empty file: None.
NullDoc == MkDoc("null", {}, NoName, "", "absent", <<>>, <<>>, <<>>)

\* A top-level mapping with the keys ks; `tables` holds a value of Python
\* type tk (the sequence ts when tk is "list").
MapDoc(ks, tk, ts) ==
    MkDoc("map", ks,
          IF "name" \in ks THEN "M" ELSE NoName,
          IF "description" \in ks THEN "d" ELSE "",
          IF "tables" \in ks THEN tk ELSE "absent",
          IF "tables" \in ks /\ tk = "list" THEN ts ELSE <<>>,
          <<>>, <<>>)

\* A top-level value that is not a mapping; ks are the field names that
\* `in` finds in it (substrings of a string, elements of a list).
ScalarDoc(top, ks) == MkDoc(top, ks, NoName, "", "absent", <<>>, <<>>, <<>>)

\* The documents the manager is run on.
ManagerDocs ==
    { MapDoc(ks, tk, ts) :
        ks \in SUBSET RequiredFields,
        tk \in {"list", "null", "str"},
        ts \in SeqsUpTo(TableValues, MaxTables) }
    \cup { ScalarDoc(top, ks) : top \in {"str", "list"},
                                ks \in {{}, {"name"}, {"tables"}} }
    \cup { ScalarDoc("int", {}), NullDoc }

\* A file on disk: absent, not parseable as YAML, or holding a document.
FileMissing == [st |-> "missing", doc |-> NullDoc]

FileBad == [st |-> "bad", doc |-> NullDoc]

FileOk(d) == [st |-> "ok", doc |-> d]

(***************************************************************************)
(* SemanticModelManager.validate                                           *)
(***************************************************************************)
\* One error string; idx is the table index the message prints (-1: none),
\* name the table name the message prints ("" : none).
Err(kind, field, idx, name) ==
    [kind |-> kind, field |-> field, idx |-> idx, name |-> name]

required_fields == <<"name", "description", "tables">>

\* for field in required_fields: if field not in self.model_data: ...
TopLevelErrors(doc) ==
    LET missing == SelectSeq(required_fields, LAMBDA f : f \notin doc.keys)
    IN  [k \in 1..Len(missing) |-> Err("missing_field", missing[k], -1, NoName)]

\* The message without the table's name.
TableNameOrUnknown_NoLookup(t) == IF t.isMap THEN "unknown" ELSE NoName

\* table.get('name', 'unknown')
TableNameOrUnknown(t) == IF "name" \in t.tkeys THEN t.name ELSE "unknown"

\* The loop body without the base_table check.
TableEntryErrors_NoBaseCheck(t, i) ==
    IF ~t.isMap
    THEN << Err("table_not_dict", "", i, NoName) >>
    ELSE IF "name" \notin t.tkeys
         THEN << Err("table_no_name", "name", i, NoName) >>
         ELSE << >>

\* The body of `for i, table in enumerate(tables)` for one table.
TableEntryErrors(t, i) ==
    IF ~t.isMap
    THEN << Err("table_not_dict", "", i, NoName) >>
    ELSE (IF "name" \notin t.tkeys
          THEN << Err("table_no_name", "name", i, NoName) >>
          ELSE << >>)
         \o
         (IF "base_table" \notin t.tkeys
          THEN << Err("table_no_base", "base_table", i, TableNameOrUnknown(t)) >>
          ELSE << >>)

RECURSIVE TableLoopErrors(_, _)
\* The errors of tables k..Len(tables), in loop order; enumerate counts from 0.
TableLoopErrors(tables, k) ==
    IF k > Len(tables)
    THEN << >>
    ELSE TableEntryErrors(tables[k], k - 1) \o TableLoopErrors(tables, k + 1)

\* The `if 'tables' in self.model_data:` block.
TablesErrors(doc) ==
    IF "tables" \notin doc.keys
    THEN << >>
    ELSE IF doc.tablesKind # "list"
         THEN << Err("tables_not_list", "tables", -1, NoName) >>
         ELSE TableLoopErrors(doc.tables, 1)

\* The errors list when the table checks are skipped after a top-level error.
ValidateErrors_ShortCircuit(doc) ==
    IF TopLevelErrors(doc) # << >> THEN TopLevelErrors(doc) ELSE TablesErrors(doc)

\* The errors list: the top-level loop, then the tables block.
ValidateErrors(doc) == TopLevelErrors(doc) \o TablesErrors(doc)

\* `field not in self.model_data` raises TypeError on None and on a number;
\* `self.model_data.get` raises AttributeError on a string or a list.
ValidateRaises(doc) ==
    \/ doc.top \in {"null", "int"}
    \/ doc.top \in {"str", "list"} /\ "tables" \in doc.keys

\* validate(): "raise" when an exception leaves the method.
Validate(doc) ==
    IF ValidateRaises(doc)
    THEN [outcome |-> "raise", errors |-> << >>]
    ELSE IF ValidateErrors(doc) # << >>
         THEN [outcome |-> "fail", errors |-> ValidateErrors(doc)]
         ELSE [outcome |-> "pass", errors |-> << >>]


(***************************************************************************)
(* SemanticModelManager: add_table, list_tables, get_stats                 *)
(***************************************************************************)
RECURSIVE AddTableScan(_, _, _)
\* The duplicate loop of add_table from element k on: "duplicate" when an
\* element has the name, "AttributeError" when t.get meets an element that
\* is not a mapping first, "" when the loop ends.
AddTableScan(tables, name, k) ==
    IF k > Len(tables) THEN ""
    ELSE IF ~tables[k].isMap THEN "AttributeError"
    ELSE IF "name" \in tables[k].tkeys /\ tables[k].name = name THEN "duplicate"
    ELSE AddTableScan(tables, name, k + 1)

\* add_table without the duplicate loop.
AddTableStop_NoDuplicateCheck(doc, name) ==
    IF doc.top # "map" THEN "AttributeError"
    ELSE IF "tables" \in doc.keys /\ doc.tablesKind = "null" THEN "TypeError"
    ELSE IF "tables" \in doc.keys /\ doc.tablesKind # "list" THEN "AttributeError"
    ELSE IF \E k \in 1..Len(doc.tables) : ~doc.tables[k].isMap THEN "AttributeError"
    ELSE ""

\* What ends add_table before it changes anything, "" when nothing does:
\* self.model_data.get on a value that is no mapping, the loop over a tables
\* value that is None or a string, or the loop itself.
AddTableStop(doc, name) ==
    IF doc.top # "map" THEN "AttributeError"
    ELSE IF "tables" \in doc.keys /\ doc.tablesKind = "null" THEN "TypeError"
    ELSE IF "tables" \in doc.keys /\ doc.tablesKind # "list" THEN "AttributeError"
    ELSE AddTableScan(doc.tables, name, 1)

\* description or f"Table {name}"
NewTableDescription(name, description) ==
    IF description = "" THEN "Table " \o name ELSE description

NewTableKeys ==
    {"name", "description", "base_table", "dimensions", "time_dimensions", "measures"}

\* The new_table entry of add_table.
new_table(name, database, schema, table, description) ==
    [isMap |-> TRUE, tkeys |-> NewTableKeys, name |-> name,
     base_table |-> BaseTable(TRUE, BaseTableFields, database, schema, table),
     description |-> NewTableDescription(name, description),
     lens |-> NoLists]

\* add_table with the new entry put in front.
AddedDoc_Prepend(doc, t) ==
    [doc EXCEPT !.keys = @ \cup {"tables"},
                !.tablesKind = "list",
                !.tables = << t >> \o @]

\* tables.append(new_table); self.model_data['tables'] = tables
AddedDoc(doc, t) ==
    [doc EXCEPT !.keys = @ \cup {"tables"},
                !.tablesKind = "list",
                !.tables = Append(@, t)]

\* The exception list_tables raises, "" when it returns.
ListTablesError(doc) ==
    IF doc.top # "map" THEN "AttributeError"
    ELSE IF "tables" \in doc.keys /\ doc.tablesKind = "null" THEN "TypeError"
    ELSE IF "tables" \in doc.keys /\ doc.tablesKind # "list" THEN "AttributeError"
    ELSE IF \E k \in 1..Len(doc.tables) : ~doc.tables[k].isMap THEN "AttributeError"
    ELSE ""

\* get_stats taken to return for every document that was loaded.
StatsError_NeverRaises(doc) == IF doc.top = "map" THEN "" ELSE ""

\* The exception get_stats raises, "" when it returns: len() of a tables
\* value or of a list field that is None, .get on a non-mapping.
StatsError(doc) ==
    IF doc.top # "map" THEN "AttributeError"
    ELSE IF "tables" \in doc.keys /\ doc.tablesKind = "null" THEN "TypeError"
    ELSE IF "tables" \in doc.keys /\ doc.tablesKind # "list" THEN "AttributeError"
    ELSE IF \E k \in 1..Len(doc.tables) : ~doc.tables[k].isMap THEN "AttributeError"
    ELSE IF \E k \in 1..Len(doc.tables) : \E f \in ListFields : doc.tables[k].lens[f] < 0
         THEN "TypeError"
    ELSE ""

(***************************************************************************)
(* main: ci-deploy                                                         *)
(***************************************************************************)
Step(name, ok) == [step |-> name, ok |-> ok]

\* The steps of ci-deploy when a failing step does not end the run.
CiSteps_NoAbort(v, d, r) ==
    << Step("validate", v = "pass"), Step("deploy", d = "ok"), Step("verify", r = "ok") >>

\* The steps ci-deploy runs, with their results: v is what validate did,
\* d what deploy did, r what verify did (each counts only if it is reached).
CiSteps(v, d, r) ==
    IF v # "pass" THEN << Step("validate", FALSE) >>
    ELSE IF d # "ok" THEN << Step("validate", TRUE), Step("deploy", FALSE) >>
    ELSE << Step("validate", TRUE), Step("deploy", TRUE), Step("verify", r = "ok") >>

AllStepsOk(steps) == \A k \in 1..Len(steps) : steps[k].ok

\* SnowflakeDeployer.__init__: no session; no statement issued yet.
NewDeployer == [session |-> "none", statements |-> << >>]

\* deploy, verify or list_versions once connect() has returned: connect
\* creates a session only when self.session is unset and returns the handle
\* it finds otherwise; the statements go to that session; the finally block
\* closes it and leaves self.session set.
DeployerRun(dep, op) ==
    [session |-> "closed",
     statements |->
        Append(dep.statements,
               [op |-> op, session |-> IF dep.session = "none" THEN "open" ELSE dep.session])]

\* The deployer at the end of a ci-deploy run with the given steps.
CiDeployer(steps, connected) ==
    IF Len(steps) < 2 \/ ~connected THEN NewDeployer
    ELSE IF Len(steps) = 2 THEN DeployerRun(NewDeployer, "deploy")
    ELSE DeployerRun(DeployerRun(NewDeployer, "deploy"), "verify")

\* The exit status of ci-deploy: sys.exit(1) at each failing step, 0 at the end.
CiExitCode(steps) == IF AllStepsOk(steps) THEN 0 ELSE 1


(***************************************************************************)
(* SemanticModelSplitter: pure parts                                       *)
(***************************************************************************)
\* The value Python's None takes where the model keeps a string.
PyNone == "None"

Whitespace == {"SP", "NL"}

RECURSIVE ReplaceEscapedNewlines(_)
\* str.replace('\\n', '\n'): every backslash-n pair, left to right.
ReplaceEscapedNewlines(s) ==
    IF s = << >>
    THEN << >>
    ELSE IF Len(s) >= 2 /\ s[1] = "BS" /\ s[2] = "n"
         THEN << "NL" >> \o ReplaceEscapedNewlines(SubSeq(s, 3, Len(s)))
         ELSE << s[1] >> \o ReplaceEscapedNewlines(Tail(s))

\* Position of the first line break of s, 0 when it has none.
FirstBreak(s) ==
    IF \E p \in 1..Len(s) : s[p] = "NL"
    THEN CHOOSE p \in 1..Len(s) : s[p] = "NL" /\ \A q \in 1..(p - 1) : s[q] # "NL"
    ELSE 0

RECURSIVE SplitLines(_)
\* str.splitlines(): no empty last line after a final line break.
SplitLines(s) ==
    IF s = << >>
    THEN << >>
    ELSE IF FirstBreak(s) = 0
         THEN << s >>
         ELSE << SubSeq(s, 1, FirstBreak(s) - 1) >>
              \o SplitLines(SubSeq(s, FirstBreak(s) + 1, Len(s)))

RECURSIVE RStrip(_)
\* str.rstrip()
RStrip(s) ==
    IF s # << >> /\ s[Len(s)] \in Whitespace
    THEN RStrip(SubSeq(s, 1, Len(s) - 1))
    ELSE s

RECURSIVE LStrip(_)
\* str.lstrip()
LStrip(s) ==
    IF s # << >> /\ s[1] \in Whitespace
    THEN LStrip(Tail(s))
    ELSE s

\* str.strip()
Strip(s) == LStrip(RStrip(s))

RECURSIVE JoinLines(_)
\* '\n'.join(lines)
JoinLines(lines) ==
    IF lines = << >>
    THEN << >>
    ELSE IF Len(lines) = 1
         THEN lines[1]
         ELSE lines[1] \o << "NL" >> \o JoinLines(Tail(lines))

\* sql_clean with rstrip() in place of strip().
SqlClean_RStripOnly(s) ==
    LET sql == ReplaceEscapedNewlines(s)
        lines == [k \in 1..Len(SplitLines(sql)) |-> RStrip(SplitLines(sql)[k])]
    IN  RStrip(JoinLines(lines)) \o << "NL" >>

\* The sql_clean of format_sql_as_literal.
SqlClean(s) ==
    LET sql == ReplaceEscapedNewlines(s)
        lines == [k \in 1..Len(SplitLines(sql)) |-> RStrip(SplitLines(sql)[k])]
    IN  Strip(JoinLines(lines)) \o << "NL" >>

\* Every sql text given one more line break, whatever it ends with.
format_sql_as_literal_AppendOnly(queries) ==
    [k \in 1..Len(queries) |->
        IF queries[k].hasSql
        THEN [queries[k] EXCEPT !.sql = @ \o << "NL" >>]
        ELSE queries[k]]

\* format_sql_as_literal on the verified_queries list: only entries with a
\* string sql change.
format_sql_as_literal(queries) ==
    [k \in 1..Len(queries) |->
        IF queries[k].hasSql
        THEN [queries[k] EXCEPT !.sql = SqlClean(queries[k].sql)]
        ELSE queries[k]]

\* extract_schema: name is None when absent, the other two have defaults.
extract_schema(model) ==
    MkDoc("map", RequiredFields,
          IF "name" \in model.keys THEN model.name ELSE PyNone,
          IF "description" \in model.keys THEN model.description ELSE "",
          IF "tables" \in model.keys THEN model.tablesKind ELSE "list",
          IF "tables" \in model.keys THEN model.tables ELSE << >>,
          << >>, << >>)

\* extract_instructions: model.get('instructions', [])
extract_instructions(model) ==
    MkDoc("map", {"instructions"}, NoName, "", "absent", << >>,
          IF "instructions" \in model.keys THEN model.instructions ELSE << >>,
          << >>)

\* extract_verified_queries, as save_yaml writes it (sql formatted).
extract_verified_queries(model) ==
    MkDoc("map", {"verified_queries"}, NoName, "", "absent", << >>, << >>,
          IF "verified_queries" \in model.keys
          THEN format_sql_as_literal(model.verified_queries)
          ELSE << >>)

\* The place of the --input path when it is none of the files split writes.
Elsewhere == "elsewhere"

\* save_yaml opens output_dir / filename for writing: the content at the
\* --input path after the saves, when that path is one of the three files.
save_yaml(path, input, schema, instructions, queries) ==
    IF path = "schema.yaml" THEN schema
    ELSE IF path = "instructions.yaml" THEN instructions
    ELSE IF path = "verified_queries.yaml" THEN queries
    ELSE input

\* split() taken to go on when the input does not parse.
SplitLoadError_IgnoresParse(f) ==
    IF f.st = "missing" THEN "FileNotFoundError"
    ELSE IF f.st = "ok" /\ f.doc.top # "map" THEN "AttributeError"
    ELSE ""

\* What stops split() before it writes: "" when nothing does.
\* load_model calls model.get, extract_schema calls len(schema['tables']).
SplitLoadError(f) ==
    IF f.st = "missing" THEN "FileNotFoundError"
    ELSE IF f.st = "bad" THEN "YAMLError"
    ELSE IF f.doc.top # "map" THEN "AttributeError"
    ELSE IF "tables" \in f.doc.keys /\ f.doc.tablesKind = "null" THEN "TypeError"
    ELSE ""


(***************************************************************************)
(* SemanticModelMerger: pure parts                                         *)
(***************************************************************************)
\* A file of the schema directory.  Its parsed top-level value is read as
\* a document (the metadata file) or used as one table entry (a table
\* file); st is "empty" when the value is falsy (None, {}).
SchemaFile(st, doc, table) == [st |-> st, doc |-> doc, table |-> table]

MetadataName == "_metadata.yaml"

\* File names of the schema directory in ascending order, as sorted() puts
\* them ('_' sorts before the lower-case letters).
FileOrder == << "_metadata.yaml", "a.yaml", "b.yaml" >>

\* load_yaml: the mapping a file loads to ({} for a missing or empty file).
EmptyMap == MkDoc("map", {}, NoName, "", "absent", << >>, << >>, << >>)

load_yaml(f) == IF f.st = "ok" /\ f.doc.top # "null" THEN f.doc ELSE EmptyMap

\* Every *.yaml file of the directory, the metadata file among them.
table_files_WithMetadata(dir) ==
    SelectSeq(FileOrder, LAMBDA n : n \in DOMAIN dir.files)

\* sorted([f for f in schema_dir.glob('*.yaml') if f.name != '_metadata.yaml'])
table_files(dir) ==
    SelectSeq(FileOrder, LAMBDA n : n \in DOMAIN dir.files /\ n # MetadataName)

\* load_table_files that keeps the complete table entries only.
load_table_files_CompleteOnly(dir) ==
    IF ~dir.exists
    THEN << >>
    ELSE LET kept == SelectSeq(table_files(dir),
                               LAMBDA n : /\ dir.files[n].st = "ok"
                                          /\ {"name", "base_table"} \subseteq dir.files[n].table.tkeys)
         IN  [k \in 1..Len(kept) |-> dir.files[kept[k]].table]

\* load_table_files: `if table_data: tables.append(table_data)`
load_table_files(dir) ==
    IF ~dir.exists
    THEN << >>
    ELSE LET kept == SelectSeq(table_files(dir), LAMBDA n : dir.files[n].st = "ok")
         IN  [k \in 1..Len(kept) |-> dir.files[kept[k]].table]

\* validate_schema without the `if not tables` check.
validate_schema_AcceptsEmpty(tables) == Len(tables) >= 0

\* validate_schema: False on an empty list.
validate_schema(tables) == tables # << >>

\* The metadata file of a schema directory.
metadata_file(dir) ==
    IF dir.exists /\ MetadataName \in DOMAIN dir.files
    THEN [st |-> dir.files[MetadataName].st, doc |-> dir.files[MetadataName].doc]
    ELSE FileMissing

\* A load_yaml call of the table loop re-raises the parser's error.
TableLoadFails(dir) ==
    dir.exists /\ \E k \in 1..Len(table_files(dir)) : dir.files[table_files(dir)[k]].st = "bad"

\* The document has the key with the value null.
NullValued(doc, key) == key \in doc.keys /\ key \in doc.nullKeys

\* The exception that leaves merge() before the output is opened, "" when
\* none does: the four loads in their order, the validation, and len() of
\* an instructions value that is None.
MergeError(dir, instr, queries) ==
    IF metadata_file(dir).st = "bad" THEN "YAMLError"
    ELSE IF TableLoadFails(dir) THEN "YAMLError"
    ELSE IF instr.st = "bad" \/ queries.st = "bad" THEN "YAMLError"
    ELSE IF ~validate_schema(load_table_files(dir)) THEN "ValueError"
    ELSE IF NullValued(load_yaml(instr), "instructions") THEN "TypeError"
    ELSE ""

\* The value under the key, and nothing in its place when the key is absent.
MetadataValue_NoDefault(metadata, key, default) ==
    IF key = "name" THEN metadata.name ELSE metadata.description

\* metadata.get(key, default) for the keys name and description.
MetadataValue(metadata, key, default) ==
    IF key \notin metadata.keys THEN default
    ELSE IF key = "name" THEN metadata.name ELSE metadata.description

\* A merged model that always carries both optional keys.
MergedDoc_EmptyDefaults(dir, instr, queries) ==
    LET metadata == load_yaml(metadata_file(dir))
    IN  MkDoc("map", RequiredFields \cup {"metadata"} \cup OptionalFields,
              IF "name" \in metadata.keys THEN metadata.name ELSE "Unknown Model",
              IF "description" \in metadata.keys THEN metadata.description ELSE "",
              "list", load_table_files(dir),
              load_yaml(instr).instructions, load_yaml(queries).verified_queries)

\* The merged model (the informational metadata block is the key "metadata").
MergedDoc(dir, instr, queries) ==
    LET metadata == load_yaml(metadata_file(dir))
        instructions == load_yaml(instr)
        verified_queries == load_yaml(queries)
        hasI == "instructions" \in instructions.keys
        hasQ == "verified_queries" \in verified_queries.keys
        merged ==
            MkDoc("map",
                  RequiredFields \cup {"metadata"}
                    \cup (IF hasI THEN {"instructions"} ELSE {})
                    \cup (IF hasQ THEN {"verified_queries"} ELSE {}),
                  MetadataValue(metadata, "name", "Unknown Model"),
                  MetadataValue(metadata, "description", ""),
                  "list", load_table_files(dir),
                  IF hasI THEN instructions.instructions ELSE << >>,
                  IF hasQ THEN verified_queries.verified_queries ELSE << >>)
    IN  [merged EXCEPT !.nullKeys =
            { k \in {"instructions"} : NullValued(instructions, k) }
            \cup { k \in {"verified_queries"} : NullValued(verified_queries, k) }]

\* main() with --validate-only: the two loads can raise; the result of
\* validate_schema is not used.
ValidateOnlyError(dir) ==
    IF metadata_file(dir).st = "bad" THEN "YAMLError"
    ELSE IF TableLoadFails(dir) THEN "YAMLError"
    ELSE ""


\* The arguments main() passes to add_table.
AddArgs(name, database, schema, table, description) ==
    [name |-> name, database |-> database, schema |-> schema, table |-> table,
     description |-> description]

NoArgs == AddArgs("", "", "", "", "")

\* The orchestrator before the first request.
NoRequest == [kind |-> "none", fields |-> << >>]

NoResponse == [code |-> 0, status |-> "", received |-> NoRequest]

NoTraffic == [previous |-> NoRequest, request |-> NoRequest, response |-> NoResponse]

\* The service wrappers of the orchestrator.
Wrappers == {"CortexComplete", "CortexSearch", "CortexML"}

\* __init__ of the wrappers: self._session = None (0: no session); no
\* session was created or is open, and no call was made.
NewWrappers ==
    [_session |-> [w \in Wrappers |-> 0], open |-> {}, created |-> 0,
     in_with |-> {}, call |-> [wrapper |-> "", op |-> ""]]

(***************************************************************************)
(* State                                                                   *)
(***************************************************************************)
VARIABLES
    cmd,                  \* the command line of the last run, "none" at first
    exit_code,            \* its exit status
    error,                \* the exception that ended it, "" when none
    semantic_file,        \* SEMANTIC_FILE, the file the manager works on
    validate_outcome,     \* what validate() did in the last run: pass, fail, raise
    validate_errors,      \* the errors list validate() printed
    backups,              \* the files of BACKUP_DIR, oldest first
    ci_steps,             \* the steps the last ci-deploy run went through
    add_args,             \* the arguments of the last add-table run
    deployer,             \* the SnowflakeDeployer of the last run: session, statements
    http,                 \* the orchestrator: the last request, its response, the one before
    cortex,               \* the service wrappers: handles, open sessions, last call
    input_file,           \* split --input
    backup_file,          \* <stem>_backup<suffix> next to the input
    out_schema,           \* <dir>/schema.yaml
    out_instructions,     \* <dir>/instructions.yaml (split writes, merge reads)
    out_verified_queries, \* <dir>/verified_queries.yaml (split writes, merge reads)
    out_readme,           \* <dir>/README.md
    schema_dir,           \* <dir>/schema/, the directory merge reads tables from
    merge_output,         \* merge --output
    split_of,             \* the input the last successful split run read
    merge_after_split,    \* the last merge run directly followed a successful split
    input_path            \* the file of <dir> the --input path names, if any

vars ==
    << cmd, exit_code, error, semantic_file, validate_outcome, validate_errors,
       backups, ci_steps, add_args, deployer, http, cortex, input_file, backup_file, out_schema, out_instructions, out_verified_queries,
       out_readme, schema_dir, merge_output, split_of, merge_after_split, input_path >>

manager_vars ==
    << semantic_file, validate_outcome, validate_errors, backups, ci_steps, add_args,
       deployer >>

service_vars == << http, cortex >>

pipeline_vars ==
    << input_file, backup_file, out_schema, out_instructions, out_verified_queries,
       out_readme, schema_dir, merge_output, split_of, merge_after_split, input_path >>

(***************************************************************************)
(* Inputs                                                                  *)
(***************************************************************************)
\* Tables of a valid document: a mapping with name and a complete base_table.
ValidTable(n) == Table(TRUE, {"name", "base_table"}, n, FullBase)

\* Non-empty table sequences with pairwise distinct names.
ValidTableSeqs ==
    { ts \in SeqsUpTo({ValidTable(n) : n \in TableNames}, MaxTables) :
        /\ ts # << >>
        /\ \A i, j \in 1..Len(ts) : i # j => ts[i].name # ts[j].name }

InstructionSeqs == { << >>, << "r1", "r2" >> }

QuerySeqs ==
    { << >>, << Query("Q", FALSE, << >>) >> }
    \cup { << Query("Q", TRUE, sql) >> : sql \in SqlSamples }

\* The valid semantic-model documents: the optional keys may be absent.
ValidDocs ==
    { MkDoc("map", RequiredFields \cup opt, "M", "d", "list", ts,
            IF "instructions" \in opt THEN ins ELSE << >>,
            IF "verified_queries" \in opt THEN qs ELSE << >>) :
        opt \in SUBSET OptionalFields, ts \in ValidTableSeqs,
        ins \in InstructionSeqs, qs \in QuerySeqs }

InputFiles ==
    { FileOk(d) : d \in ValidDocs } \cup { FileMissing, FileBad, FileOk(NullDoc) }

\* A metadata document with the given keys.
MetadataDoc(ks) ==
    MkDoc("map", ks, IF "name" \in ks THEN "M" ELSE NoName,
          IF "description" \in ks THEN "d" ELSE "", "absent", << >>, << >>, << >>)

MetadataFiles ==
    { SchemaFile("ok", MetadataDoc({"name", "description"}), NotDictTable),
      SchemaFile("ok", MetadataDoc({}), NotDictTable),
      SchemaFile("bad", NullDoc, NotDictTable) }

TableFiles ==
    { SchemaFile("ok", NullDoc, ValidTable(n)) : n \in TableNames }
    \cup { SchemaFile("empty", NullDoc, NotDictTable),
           SchemaFile("bad", NullDoc, NotDictTable) }

NoDir == [exists |-> FALSE, files |-> << >>]

\* The schema directory before any run: absent, or holding any of the files.
SchemaDirs ==
    {NoDir}
    \cup { [exists |-> TRUE, files |-> f] :
             f \in UNION { [names -> MetadataFiles \cup TableFiles] :
                             names \in SUBSET {FileOrder[k] : k \in 1..Len(FileOrder)} } }

WellFormedDir(dir) ==
    \A n \in DOMAIN dir.files :
        IF n = MetadataName THEN dir.files[n] \in MetadataFiles
                            ELSE dir.files[n] \in TableFiles

\* instructions.yaml and verified_queries.yaml as an earlier edit left them.
StaleInstructions ==
    FileOk(MkDoc("map", {"instructions"}, NoName, "", "absent", << >>, << "r0" >>, << >>))

StaleQueries ==
    FileOk(MkDoc("map", {"verified_queries"}, NoName, "", "absent", << >>, << >>,
                 << Query("Q0", TRUE, << "n", "NL" >>) >>))

\* The same files with the key set to null (`instructions:` and nothing else).
NullInstructions ==
    FileOk([MkDoc("map", {"instructions"}, NoName, "", "absent", << >>, << >>, << >>)
              EXCEPT !.nullKeys = {"instructions"}])

NullQueries ==
    FileOk([MkDoc("map", {"verified_queries"}, NoName, "", "absent", << >>, << >>, << >>)
              EXCEPT !.nullKeys = {"verified_queries"}])

StaleOutput ==
    FileOk(MkDoc("map", RequiredFields, "Old", "", "list", << ValidTable("T1") >>, << >>, << >>))

(***************************************************************************)
(* Commands of split_semantic_model.py and merge_semantic_models.py        *)
(***************************************************************************)
PipelineInit ==
    /\ cmd = "none"
    /\ exit_code = 0
    /\ error = ""
    /\ semantic_file = FileMissing
    /\ validate_outcome = "none"
    /\ validate_errors = << >>
    /\ backups = << >>
    /\ ci_steps = << >>
    /\ add_args = NoArgs
    /\ deployer = NewDeployer
    /\ http = NoTraffic
    /\ cortex = NewWrappers
    /\ input_file \in InputFiles
    /\ backup_file = FileMissing
    /\ out_schema = FileMissing
    /\ \E stale \in {"none", "keys", "nokeys", "null_instructions", "null_queries"} :
          /\ out_instructions = (IF stale = "none" THEN FileMissing
                                 ELSE IF stale \in {"keys", "null_queries"} THEN StaleInstructions
                                 ELSE IF stale = "null_instructions" THEN NullInstructions
                                 ELSE FileOk(EmptyMap))
          /\ out_verified_queries = (IF stale = "none" THEN FileMissing
                                     ELSE IF stale = "keys" THEN StaleQueries
                                     ELSE IF stale = "null_queries" THEN NullQueries
                                     ELSE FileOk(EmptyMap))
    /\ out_readme = [exists |-> FALSE, model |-> NoName]
    /\ schema_dir \in { d \in SchemaDirs : WellFormedDir(d) }
    /\ merge_output \in {FileMissing, StaleOutput}
    /\ split_of = FileMissing
    /\ input_path = Elsewhere
    /\ merge_after_split = FALSE

NeedBackup_Always(backup) == backup.st = backup.st

\* split(): `if not backup_path.exists()`.
NeedBackup(backup) == backup.st = "missing"

\* split_semantic_model.py main(): the backup, the load, the three saves and
\* the README; any exception ends the run with status 1.
Split ==
    LET need_backup == NeedBackup(backup_file)
        copy_fails == need_backup /\ input_file.st = "missing"
        err == IF copy_fails THEN "FileNotFoundError" ELSE SplitLoadError(input_file)
        model == input_file.doc
    IN  /\ cmd' = "split"
        /\ error' = err
        /\ exit_code' = (IF err = "" THEN 0 ELSE 1)
        /\ backup_file' = (IF need_backup /\ ~copy_fails THEN input_file ELSE backup_file)
        /\ IF err = ""
           THEN /\ out_schema' = FileOk(extract_schema(model))
                /\ out_instructions' = FileOk(extract_instructions(model))
                /\ out_verified_queries' = FileOk(extract_verified_queries(model))
                /\ out_readme' = [exists |-> TRUE,
                                   model |-> IF "name" \in model.keys THEN model.name
                                                                     ELSE "Unknown"]
                /\ split_of' = input_file
           ELSE UNCHANGED << out_schema, out_instructions, out_verified_queries,
                             out_readme, split_of >>
        /\ input_file' = (IF err = ""
                          THEN save_yaml(input_path, input_file, out_schema',
                                         out_instructions', out_verified_queries')
                          ELSE input_file)
        /\ UNCHANGED << input_path, schema_dir, merge_output, merge_after_split >>
        /\ UNCHANGED << manager_vars, service_vars >>

\* merge_semantic_models.py main() without --validate-only: merge() and the
\* except clause that turns any exception into status 1.
Merge ==
    LET err == MergeError(schema_dir, out_instructions, out_verified_queries)
    IN  /\ cmd' = "merge"
        /\ error' = err
        /\ exit_code' = (IF err = "" THEN 0 ELSE 1)
        /\ merge_output' = (IF err = ""
                            THEN FileOk(MergedDoc(schema_dir, out_instructions,
                                                  out_verified_queries))
                            ELSE merge_output)
        /\ merge_after_split' = (cmd = "split" /\ exit_code = 0)
        /\ UNCHANGED << input_file, input_path, backup_file, out_schema, out_instructions,
                        out_verified_queries, out_readme, schema_dir, split_of >>
        /\ UNCHANGED << manager_vars, service_vars >>

\* merge_semantic_models.py main() with --validate-only.
MergeValidateOnly ==
    LET err == ValidateOnlyError(schema_dir)
    IN  /\ cmd' = "merge-validate-only"
        /\ error' = err
        /\ exit_code' = (IF err = "" THEN 0 ELSE 1)
        /\ UNCHANGED << pipeline_vars, service_vars >>
        /\ UNCHANGED manager_vars

PipelineNext == Split \/ Merge \/ MergeValidateOnly

PipelineSpec == PipelineInit /\ [][PipelineNext]_vars

(***************************************************************************)
(* Commands of manage_semantic_model.py                                    *)
(***************************************************************************)
ManagerInit ==
    /\ cmd = "none"
    /\ exit_code = 0
    /\ error = ""
    /\ semantic_file \in { FileOk(d) : d \in ManagerDocs } \cup { FileMissing, FileBad }
    /\ validate_outcome = "none"
    /\ validate_errors = << >>
    /\ backups = << >>
    /\ ci_steps = << >>
    /\ add_args = NoArgs
    /\ deployer = NewDeployer
    /\ http = NoTraffic
    /\ cortex = NewWrappers
    /\ input_file = FileMissing
    /\ backup_file = FileMissing
    /\ out_schema = FileMissing
    /\ out_instructions = FileMissing
    /\ out_verified_queries = FileMissing
    /\ out_readme = [exists |-> FALSE, model |-> NoName]
    /\ schema_dir = NoDir
    /\ merge_output = FileMissing
    /\ split_of = FileMissing
    /\ input_path = Elsewhere
    /\ merge_after_split = FALSE

\* `validate`: load() exits 1 on a missing or unparseable file; otherwise the
\* status follows validate(), and an exception reaches main's except clause.
CmdValidate ==
    /\ cmd' = "validate"
    /\ IF semantic_file.st # "ok"
       THEN /\ validate_outcome' = "none"
            /\ validate_errors' = << >>
            /\ error' = "SystemExit"
            /\ exit_code' = 1
       ELSE LET r == Validate(semantic_file.doc)
            IN  /\ validate_outcome' = r.outcome
                /\ validate_errors' = r.errors
                /\ error' = (IF r.outcome = "raise" THEN "Exception" ELSE "")
                /\ exit_code' = (IF r.outcome = "pass" THEN 0 ELSE 1)
    /\ UNCHANGED << semantic_file, backups, ci_steps, add_args, deployer >>
    /\ UNCHANGED << pipeline_vars, service_vars >>

\* The names and descriptions add-table is run with; argparse accepts the
\* empty string for the positional name.
AddNames == {"", "T1", "T3"}

AddDescriptions == {"", "about"}

\* _create_backup: copy2 of the file to semantic_<timestamp>.yaml; a run in
\* the same second as the one before writes the same file name again.
BackedUp(dir, f, same_second) ==
    IF same_second /\ dir # << >>
    THEN [dir EXCEPT ![Len(dir)] = f]
    ELSE Append(dir, f)

\* `add-table`: load (exit 1 on a missing or unparseable file), the
\* duplicate check (exit 1), then the append and save() with its backup.
\* An exception reaches main's except clause: exit 1.
CmdAddTable ==
    \E name \in AddNames, description \in AddDescriptions, same_second \in BOOLEAN :
        /\ Len(semantic_file.doc.tables) <= MaxTables
        /\ cmd' = "add-table"
        /\ add_args' = AddArgs(name, "DB", "SC", "PT", description)
        /\ LET stop == IF semantic_file.st # "ok" THEN "SystemExit"
                        ELSE AddTableStop(semantic_file.doc, name)
           IN  IF stop # ""
               THEN /\ error' = (IF stop = "duplicate" THEN "SystemExit" ELSE stop)
                    /\ exit_code' = 1
                    /\ UNCHANGED << semantic_file, backups >>
               ELSE /\ error' = ""
                    /\ exit_code' = 0
                    /\ backups' = BackedUp(backups, semantic_file, same_second)
                    /\ semantic_file' =
                          FileOk(AddedDoc(semantic_file.doc,
                                          new_table(name, "DB", "SC", "PT", description)))
        /\ UNCHANGED << validate_outcome, validate_errors, ci_steps, deployer >>
        /\ UNCHANGED << pipeline_vars, service_vars >>

\* An add-table run whose backup cannot be made.  os.makedirs is outside
\* the try block of _create_backup: its exception ends the run with exit 1
\* before the file is opened.  An exception of copy2 is caught there and
\* printed as a warning: save() goes on and writes the file.
CmdAddTableBackupFails ==
    \E name \in AddNames, description \in AddDescriptions, at \in {"makedirs", "copy2"} :
        /\ Len(semantic_file.doc.tables) <= MaxTables
        /\ semantic_file.st = "ok"
        /\ AddTableStop(semantic_file.doc, name) = ""
        /\ cmd' = "add-table"
        /\ add_args' = AddArgs(name, "DB", "SC", "PT", description)
        /\ error' = (IF at = "makedirs" THEN "OSError" ELSE "")
        /\ exit_code' = (IF at = "makedirs" THEN 1 ELSE 0)
        /\ semantic_file' =
              (IF at = "makedirs" THEN semantic_file
               ELSE FileOk(AddedDoc(semantic_file.doc,
                                    new_table(name, "DB", "SC", "PT", description))))
        /\ UNCHANGED << backups, validate_outcome, validate_errors, ci_steps, deployer >>
        /\ UNCHANGED << pipeline_vars, service_vars >>

\* A command that saves what it has loaded, as the editing commands do.
ReadOnlyRun_Saves(name, err) ==
    /\ cmd' = name
    /\ error' = (IF semantic_file.st # "ok" THEN "SystemExit" ELSE err)
    /\ exit_code' = (IF semantic_file.st # "ok" \/ err # "" THEN 1 ELSE 0)
    /\ backups' = BackedUp(backups, semantic_file, FALSE)
    /\ UNCHANGED << semantic_file, validate_outcome, validate_errors, ci_steps, add_args,
                    deployer >>
    /\ UNCHANGED << pipeline_vars, service_vars >>

\* A read-only command: exit 1 from load() or from an exception, else 0.
ReadOnlyRun(name, err) ==
    /\ cmd' = name
    /\ error' = (IF semantic_file.st # "ok" THEN "SystemExit" ELSE err)
    /\ exit_code' = (IF semantic_file.st # "ok" \/ err # "" THEN 1 ELSE 0)
    /\ UNCHANGED manager_vars
    /\ UNCHANGED << pipeline_vars, service_vars >>

\* `stats`
CmdStats == ReadOnlyRun("stats", StatsError(semantic_file.doc))

\* `list-tables`
CmdListTables == ReadOnlyRun("list-tables", ListTablesError(semantic_file.doc))

\* `ci-deploy`: validate, then deployer.deploy, then deployer.verify; what
\* the stage answers to deploy and verify is the environment's choice
\* (deploy also fails when no session can be created).
CmdCiDeploy ==
    \E d \in {"ok", "fail", "no_connection"}, r \in {"ok", "fail"} :
        LET res == IF semantic_file.st = "ok" THEN Validate(semantic_file.doc)
                   ELSE [outcome |-> "exit", errors |-> << >>]
            steps == CiSteps(res.outcome, d, r)
        IN  /\ cmd' = "ci-deploy"
            /\ validate_outcome' = (IF res.outcome = "exit" THEN "none" ELSE res.outcome)
            /\ validate_errors' = res.errors
            /\ ci_steps' = steps
            /\ exit_code' = CiExitCode(steps)
            /\ error' = (IF res.outcome = "raise" THEN "Exception"
                         ELSE IF AllStepsOk(steps) THEN "" ELSE "SystemExit")
            /\ deployer' = CiDeployer(steps, d # "no_connection")
            /\ UNCHANGED << semantic_file, backups, add_args >>
            /\ UNCHANGED << pipeline_vars, service_vars >>

\* `deploy`, `verify`, `list-versions`: one operation of a new deployer;
\* connect() exits 1 when no session can be created, deploy and verify
\* return False on a failure and list_versions lets the exception through.
CmdDeployerRun ==
    \E op \in {"deploy", "verify", "list-versions"}, d \in {"ok", "fail", "no_connection"} :
        /\ cmd' = op
        /\ exit_code' = (IF d = "ok" THEN 0 ELSE 1)
        /\ error' = (IF d = "ok" THEN ""
                     ELSE IF d = "fail" /\ op = "list-versions" THEN "Exception"
                     ELSE "SystemExit")
        /\ deployer' = (IF d = "no_connection" THEN NewDeployer
                                                ELSE DeployerRun(NewDeployer, op))
        /\ UNCHANGED << semantic_file, validate_outcome, validate_errors, backups, ci_steps,
                        add_args >>
        /\ UNCHANGED << pipeline_vars, service_vars >>

ManagerNext == CmdValidate

ManagerSpec == ManagerInit /\ [][ManagerNext]_vars


\* The input files of repeated split runs: one table, any optional keys.
BackupInputs ==
    { f \in InputFiles : f.st = "ok" /\ f.doc.top = "map" => f.doc.tables = << ValidTable("T1") >> }

\* The state before the first split run; a backup may be there from before.
BackupInit ==
    /\ cmd = "none"
    /\ exit_code = 0
    /\ error = ""
    /\ semantic_file = FileMissing
    /\ validate_outcome = "none"
    /\ validate_errors = << >>
    /\ backups = << >>
    /\ ci_steps = << >>
    /\ add_args = NoArgs
    /\ deployer = NewDeployer
    /\ http = NoTraffic
    /\ cortex = NewWrappers
    /\ input_file \in BackupInputs
    /\ backup_file \in {FileMissing, StaleOutput}
    /\ out_schema = FileMissing
    /\ out_instructions = FileMissing
    /\ out_verified_queries = FileMissing
    /\ out_readme = [exists |-> FALSE, model |-> NoName]
    /\ schema_dir = NoDir
    /\ merge_output = FileMissing
    /\ split_of = FileMissing
    /\ input_path = Elsewhere
    /\ merge_after_split = FALSE

\* Between two runs the user edits, replaces or removes the input file.
EditInput ==
    /\ input_file' \in BackupInputs \ {input_file}
    /\ UNCHANGED << cmd, exit_code, error, backup_file, out_schema, out_instructions,
                    out_verified_queries, out_readme, schema_dir, merge_output, split_of,
                    merge_after_split, input_path >>
    /\ UNCHANGED << manager_vars, service_vars >>

\* The files split writes, in the order it writes them.
SplitOutputs == << "schema.yaml", "instructions.yaml", "verified_queries.yaml", "README.md" >>

\* A split run in which open() of the k-th output file fails: the files
\* before it are written, the exception ends the run with status 1.
SplitWriteFails ==
    \E k \in 1..Len(SplitOutputs) :
        LET need_backup == NeedBackup(backup_file)
            model == input_file.doc
        IN  /\ ~(need_backup /\ input_file.st = "missing")
            /\ SplitLoadError(input_file) = ""
            /\ cmd' = "split"
            /\ error' = "OSError"
            /\ exit_code' = 1
            /\ backup_file' = (IF need_backup THEN input_file ELSE backup_file)
            /\ out_schema' = (IF k > 1 THEN FileOk(extract_schema(model)) ELSE out_schema)
            /\ out_instructions' =
                  (IF k > 2 THEN FileOk(extract_instructions(model)) ELSE out_instructions)
            /\ out_verified_queries' =
                  (IF k > 3 THEN FileOk(extract_verified_queries(model))
                            ELSE out_verified_queries)
            /\ input_file' = save_yaml(input_path, input_file, out_schema',
                                       out_instructions', out_verified_queries')
            /\ UNCHANGED << out_readme, split_of, input_path, schema_dir, merge_output,
                            merge_after_split >>
            /\ UNCHANGED << manager_vars, service_vars >>

SplitRunNext == Split \/ SplitWriteFails

\* Split runs, some of them with an output file that cannot be written.
SplitRunSpec == BackupInit /\ [][SplitRunNext]_vars

\* The --input path lies in the output directory, under one of the names
\* split writes, or elsewhere; the file of that name is the input itself.
InPlaceInit ==
    /\ cmd = "none"
    /\ exit_code = 0
    /\ error = ""
    /\ semantic_file = FileMissing
    /\ validate_outcome = "none"
    /\ validate_errors = << >>
    /\ backups = << >>
    /\ ci_steps = << >>
    /\ add_args = NoArgs
    /\ deployer = NewDeployer
    /\ http = NoTraffic
    /\ cortex = NewWrappers
    /\ input_file \in BackupInputs
    /\ input_path \in {Elsewhere, "schema.yaml", "instructions.yaml", "verified_queries.yaml"}
    /\ backup_file = FileMissing
    /\ out_schema = (IF input_path = "schema.yaml" THEN input_file ELSE FileMissing)
    /\ out_instructions = (IF input_path = "instructions.yaml" THEN input_file ELSE FileMissing)
    /\ out_verified_queries =
          (IF input_path = "verified_queries.yaml" THEN input_file ELSE FileMissing)
    /\ out_readme = [exists |-> FALSE, model |-> NoName]
    /\ schema_dir = NoDir
    /\ merge_output = FileMissing
    /\ split_of = FileMissing
    /\ merge_after_split = FALSE

\* Split runs whose input may be one of the files they write.
InPlaceSpec == InPlaceInit /\ [][SplitRunNext]_vars

BackupNext == Split \/ EditInput

\* Split runs on one input path whose content changes between the runs.
BackupSpec == BackupInit /\ [][BackupNext]_vars

\* Table files as a user writes them: a complete entry, one without
\* base_table, one without name, a YAML list, an empty file.
AnyTableFiles ==
    { SchemaFile("ok", NullDoc, t) :
        t \in { ValidTable("T1"), Table(TRUE, {"name"}, "T2", NoBase),
                Table(TRUE, {"base_table"}, NoName, FullBase), NotDictTable } }
    \cup { SchemaFile("empty", NullDoc, NotDictTable) }

\* The state before a merge of a schema directory with such table files.
MergeShapeInit ==
    /\ \E files \in UNION { [names -> AnyTableFiles] : names \in SUBSET {"a.yaml", "b.yaml"} },
          meta \in MetadataFiles \cup {SchemaFile("missing", NullDoc, NotDictTable)} :
          schema_dir =
            [exists |-> TRUE,
             files |-> [n \in DOMAIN files \cup (IF meta.st = "missing" THEN {} ELSE {MetadataName})
                          |-> IF n = MetadataName THEN meta ELSE files[n]]]
    /\ \E stale \in BOOLEAN :
          /\ out_instructions = (IF stale THEN StaleInstructions ELSE FileMissing)
          /\ out_verified_queries = (IF stale THEN StaleQueries ELSE FileMissing)
    /\ cmd = "none"
    /\ exit_code = 0
    /\ error = ""
    /\ semantic_file = FileMissing
    /\ validate_outcome = "none"
    /\ validate_errors = << >>
    /\ backups = << >>
    /\ ci_steps = << >>
    /\ add_args = NoArgs
    /\ deployer = NewDeployer
    /\ http = NoTraffic
    /\ cortex = NewWrappers
    /\ input_file = FileMissing
    /\ backup_file = FileMissing
    /\ out_schema = FileMissing
    /\ out_readme = [exists |-> FALSE, model |-> NoName]
    /\ merge_output = FileMissing
    /\ split_of = FileMissing
    /\ input_path = Elsewhere
    /\ merge_after_split = FALSE

MergeShapeNext == Merge \/ MergeValidateOnly

\* Merge runs on schema directories whose table files have any shape.
MergeShapeSpec == MergeShapeInit /\ [][MergeShapeNext]_vars

\* A document with a verified query without sql and one with the sql text.
SqlDoc(sql) ==
    MkDoc("map", RequiredFields \cup {"verified_queries"}, "M", "d", "list",
          << ValidTable("T1") >>, << >>,
          << Query("P", FALSE, << >>), Query("Q", TRUE, sql) >>)

\* The state before the first split of a document with some sql text.
SqlInit ==
    /\ cmd = "none"
    /\ exit_code = 0
    /\ error = ""
    /\ semantic_file = FileMissing
    /\ validate_outcome = "none"
    /\ validate_errors = << >>
    /\ backups = << >>
    /\ ci_steps = << >>
    /\ add_args = NoArgs
    /\ deployer = NewDeployer
    /\ http = NoTraffic
    /\ cortex = NewWrappers
    /\ input_file \in { FileOk(SqlDoc(sql)) : sql \in SeqsUpTo(SqlChars, MaxSqlLen) }
    /\ backup_file = FileMissing
    /\ out_schema = FileMissing
    /\ out_instructions = FileMissing
    /\ out_verified_queries = FileMissing
    /\ out_readme = [exists |-> FALSE, model |-> NoName]
    /\ schema_dir = NoDir
    /\ merge_output = FileMissing
    /\ split_of = FileMissing
    /\ input_path = Elsewhere
    /\ merge_after_split = FALSE

\* The user puts the queries of verified_queries.yaml back into the input
\* document, as a regenerated semantic.yaml has them.
UseSplitQueries ==
    /\ input_file.st = "ok"
    /\ out_verified_queries.st = "ok"
    /\ input_file.doc.verified_queries # out_verified_queries.doc.verified_queries
    /\ input_file' =
          FileOk([input_file.doc EXCEPT
                    !.keys = @ \cup {"verified_queries"},
                    !.verified_queries = out_verified_queries.doc.verified_queries])
    /\ UNCHANGED << cmd, exit_code, error, backup_file, out_schema, out_instructions,
                    out_verified_queries, out_readme, schema_dir, merge_output, split_of,
                    merge_after_split, input_path >>
    /\ UNCHANGED << manager_vars, service_vars >>

SqlNext == Split \/ UseSplitQueries

\* Split runs on documents with any sql text up to MaxSqlLen characters.
SqlSpec == SqlInit /\ [][SqlNext]_vars

(***************************************************************************)
(* The orchestrator service (main.py)                                      *)
(***************************************************************************)
QueryKeys == {"query", "session_id", "user_id"}

QueryValues == {"a", "b"}

\* The JSON bodies posted to /api/v1/query: objects with any of the keys,
\* and two bodies that are no objects.
Payloads ==
    { [kind |-> "object", fields |-> f] :
        f \in UNION { [ks -> QueryValues] : ks \in SUBSET QueryKeys } }
    \cup { [kind |-> "array", fields |-> << >>], [kind |-> "string", fields |-> << >>] }

\* The handler with a fixed placeholder body.
query_NoEcho(request) ==
    [code |-> 200, status |-> "not_implemented", received |-> NoRequest]

\* query(request: dict): the framework answers 422 to a body that is no
\* object; the handler returns the placeholder with the body it received.
query(request) ==
    IF request.kind # "object"
    THEN [code |-> 422, status |-> "", received |-> NoRequest]
    ELSE [code |-> 200, status |-> "not_implemented", received |-> request]

\* POST /api/v1/query
PostQuery ==
    /\ \E request \in Payloads :
          http' = [previous |-> http.request, request |-> request,
                   response |-> query(request)]
    /\ UNCHANGED << cmd, exit_code, error, cortex >>
    /\ UNCHANGED << manager_vars, pipeline_vars >>

\* The tables of the documents that are edited: a valid one, one without
\* base_table, one that is no mapping, and the two with list fields.
EditTables ==
    { ValidTable("T1"), Table(TRUE, {"name"}, "T2", NoBase), NotDictTable,
      MeasuredTable(2), MeasuredTable(-1) }

\* The documents add-table, stats and list-tables are run on.
EditDocs ==
    { MapDoc(ks, tk, ts) :
        ks \in { RequiredFields, {"name", "description"} },
        tk \in {"list", "null"},
        ts \in SeqsUpTo(EditTables, MaxTables) }
    \cup { NullDoc, ScalarDoc("list", {}) }

\* The manager's state before any run, on the file f.
ManagerStart(f) ==
    /\ cmd = "none"
    /\ exit_code = 0
    /\ error = ""
    /\ semantic_file = f
    /\ validate_outcome = "none"
    /\ validate_errors = << >>
    /\ backups = << >>
    /\ ci_steps = << >>
    /\ add_args = NoArgs
    /\ deployer = NewDeployer
    /\ http = NoTraffic
    /\ cortex = NewWrappers
    /\ input_file = FileMissing
    /\ backup_file = FileMissing
    /\ out_schema = FileMissing
    /\ out_instructions = FileMissing
    /\ out_verified_queries = FileMissing
    /\ out_readme = [exists |-> FALSE, model |-> NoName]
    /\ schema_dir = NoDir
    /\ merge_output = FileMissing
    /\ split_of = FileMissing
    /\ input_path = Elsewhere
    /\ merge_after_split = FALSE

EditInit == \E f \in { FileOk(d) : d \in EditDocs } \cup { FileMissing, FileBad } : ManagerStart(f)

EditNext == CmdAddTable \/ CmdValidate \/ CmdStats \/ CmdListTables

\* The editing and the read-only commands of the manager, in any order.
EditSpec == EditInit /\ [][EditNext]_vars

SaveNext == CmdAddTable \/ CmdAddTableBackupFails

\* add-table runs, some of them with a backup directory that cannot be
\* created or written.
SaveSpec == EditInit /\ [][SaveNext]_vars

CiInit ==
    \E f \in { FileOk(d) : d \in EditDocs } \cup { FileMissing, FileBad } : ManagerStart(f)

CiNext == CmdCiDeploy \/ CmdDeployerRun

\* Runs of ci-deploy.
CiSpec == CiInit /\ [][CiNext]_vars

\* _get_session of the wrapper w: the session it holds, or a new one (the
\* next session number) when it holds none and create() succeeds; when
\* create() raises, the operation catches the exception and nothing changes.
get_session(c, w, create_ok) ==
    IF c._session[w] # 0 \/ ~create_ok
    THEN c
    ELSE [c EXCEPT !._session[w] = c.created + 1,
                   !.open = @ \cup {c.created + 1},
                   !.created = @ + 1]

\* close that closes the session and keeps the handle.
close_KeepsHandle(c, w) == [c EXCEPT !.open = @ \ {c._session[w]}]

\* close of the wrapper w: `if self._session is not None:` close it and
\* set the handle to None.
close(c, w) ==
    IF c._session[w] = 0
    THEN c
    ELSE [c EXCEPT !.open = @ \ {c._session[w]}, !._session[w] = 0]

\* The last call made on a wrapper.
Called(c, w, op) == [c EXCEPT !.call = [wrapper |-> w, op |-> op]]

\* The variables of the tools, which the wrappers do not touch.
WrapperFrame ==
    /\ UNCHANGED << cmd, exit_code, error, http >>
    /\ UNCHANGED << manager_vars, pipeline_vars >>

\* An operation of a wrapper that needs the session (complete, search,
\* forecast, ...).
WrapperOperation ==
    \E w \in Wrappers, create_ok \in BOOLEAN :
        /\ cortex._session[w] = 0 /\ create_ok => cortex.created < MaxSessions
        /\ cortex' = Called(get_session(cortex, w, create_ok), w, "operation")
        /\ WrapperFrame

\* close() called by the user of the wrapper.
WrapperClose ==
    \E w \in Wrappers :
        /\ cortex' = Called(close(cortex, w), w, "close")
        /\ WrapperFrame

\* __enter__: the with-block begins; returns self.
WrapperEnter ==
    \E w \in Wrappers \ cortex.in_with :
        /\ cortex' = Called([cortex EXCEPT !.in_with = @ \cup {w}], w, "__enter__")
        /\ WrapperFrame

\* __exit__: the with-block ends, normally or by an exception.
WrapperExit ==
    \E w \in cortex.in_with :
        /\ cortex' = Called([close(cortex, w) EXCEPT !.in_with = @ \ {w}], w, "__exit__")
        /\ WrapperFrame

CortexNext == WrapperOperation \/ WrapperClose \/ WrapperEnter \/ WrapperExit

\* One instance of each wrapper under any sequence of calls.
CortexSpec == ManagerStart(FileMissing) /\ [][CortexNext]_vars

OrchestratorNext == PostQuery

\* The running orchestrator: the service starts with the state of the
\* tools untouched.
OrchestratorSpec == ManagerStart(FileMissing) /\ [][OrchestratorNext]_vars

(***************************************************************************)
(* Properties: split and merge                                             *)
(***************************************************************************)
\* The state after `merge` ran directly after a successful `split` of a
\* valid document into the directory merge reads.
MergedAfterSplit ==
    /\ cmd = "merge"
    /\ merge_after_split
    /\ split_of.st = "ok"
    /\ split_of.doc \in ValidDocs

\* C1: after split of a valid document D and merge on the same directory,
\* the merge succeeded and the merged document has D's name, description
\* and tables, the tables in D's order.
C1_SplitMergeReproducesSchema ==
    MergedAfterSplit =>
        /\ exit_code = 0
        /\ merge_output.st = "ok"
        /\ merge_output.doc.name = split_of.doc.name
        /\ merge_output.doc.description = split_of.doc.description
        /\ merge_output.doc.tablesKind = "list"
        /\ merge_output.doc.tables = split_of.doc.tables

\* The sql text with escaped newlines resolved and all whitespace removed.
SqlWithoutWhitespace(s) ==
    SelectSeq(ReplaceEscapedNewlines(s), LAMBDA c : c \notin Whitespace)

\* Two query lists agree up to the whitespace of their sql texts.
SameQueries(a, b) ==
    /\ Len(a) = Len(b)
    /\ \A k \in 1..Len(a) :
          /\ a[k].question = b[k].question
          /\ a[k].hasSql = b[k].hasSql
          /\ SqlWithoutWhitespace(a[k].sql) = SqlWithoutWhitespace(b[k].sql)

\* C2: when merge succeeded after split of a valid document D, the merged
\* document has the key instructions exactly if D has it, with D's value,
\* and the key verified_queries exactly if D has it, with D's entries in
\* D's order up to the whitespace of each sql.
C2_SplitMergeReproducesOptionalKeys ==
    (MergedAfterSplit /\ exit_code = 0) =>
        /\ ("instructions" \in merge_output.doc.keys) = ("instructions" \in split_of.doc.keys)
        /\ merge_output.doc.instructions = split_of.doc.instructions
        /\ ("verified_queries" \in merge_output.doc.keys)
             = ("verified_queries" \in split_of.doc.keys)
        /\ SameQueries(merge_output.doc.verified_queries, split_of.doc.verified_queries)

\* The schema directory holds no table document: it is missing, or none of
\* its files other than the metadata file parses to a non-empty value.
NoTableDocuments(dir) ==
    \/ ~dir.exists
    \/ \A n \in DOMAIN dir.files : n # MetadataName => dir.files[n].st # "ok"

\* Some file that merge loads is not parseable.
SomeFileUnparseable ==
    \/ out_instructions.st = "bad"
    \/ out_verified_queries.st = "bad"
    \/ schema_dir.exists /\ \E n \in DOMAIN schema_dir.files : schema_dir.files[n].st = "bad"

\* C3: a merge run on a directory without table documents exits 1 and
\* leaves the output file as it was (missing stays missing); the failure is
\* the validation error unless a file failed to parse before the check.
C3_MergeWithoutTablesWritesNothing ==
    [][ (cmd' = "merge" /\ NoTableDocuments(schema_dir)) =>
          /\ exit_code' = 1
          /\ merge_output' = merge_output
          /\ error' \in {"ValueError", "YAMLError"}
          /\ (~SomeFileUnparseable => error' = "ValueError") ]_vars

\* C3 witness: a merge run failed validation on an existing schema
\* directory without table documents, the earlier output still in place.
C3_Witness ==
    /\ cmd = "merge"
    /\ schema_dir.exists
    /\ DOMAIN schema_dir.files # {}
    /\ NoTableDocuments(schema_dir)
    /\ error = "ValueError"
    /\ exit_code = 1
    /\ merge_output = StaleOutput

\* C4: a merge --validate-only run leaves the output file as it was, exits
\* 1 when no table document is loaded, and exits 0 only when the validation
\* of the loaded tables passes.
C4_ValidateOnlyExitFollowsValidation ==
    [][ cmd' = "merge-validate-only" =>
          /\ merge_output' = merge_output
          /\ (NoTableDocuments(schema_dir) => exit_code' = 1)
          /\ (exit_code' = 0 => ~NoTableDocuments(schema_dir)) ]_vars


(***************************************************************************)
(* Properties: validate                                                    *)
(***************************************************************************)
\* The `validate` command ran on a parsed document.
Validated == cmd = "validate" /\ semantic_file.st = "ok"

\* The parsed document is a mapping, as the data model has it.
IsMapping(doc) == doc.top = "map"

TablesIsList(doc) == "tables" \in doc.keys /\ doc.tablesKind = "list"

\* Some element of the tables sequence has no name or no base_table.
SomeTableLacksField(doc) ==
    /\ TablesIsList(doc)
    /\ \E i \in 1..Len(doc.tables) :
          "name" \notin doc.tables[i].tkeys \/ "base_table" \notin doc.tables[i].tkeys

\* C5: for every mapping document without the key tables, and for every
\* one in which some table lacks name or base_table, validate returns
\* failure and reports at least one error.
C5_ValidateRejectsMissingFields ==
    (/\ Validated
     /\ IsMapping(semantic_file.doc)
     /\ ("tables" \notin semantic_file.doc.keys \/ SomeTableLacksField(semantic_file.doc)))
    => (/\ validate_outcome = "fail"
        /\ Len(validate_errors) >= 1
        /\ exit_code = 1)

\* C5 witness: validate failed on a document that has all three top-level
\* keys and whose second table has a name but no base_table.
C5_Witness ==
    /\ Validated
    /\ RequiredFields \subseteq semantic_file.doc.keys
    /\ TablesIsList(semantic_file.doc)
    /\ Len(semantic_file.doc.tables) = 2
    /\ semantic_file.doc.tables[1].tkeys = {"name", "base_table"}
    /\ semantic_file.doc.tables[2].tkeys = {"name"}
    /\ validate_outcome = "fail"
    /\ Len(validate_errors) >= 1

\* C6: validate passes only on a document whose tables is a non-empty
\* sequence.
C6_PassRequiresNonEmptyTables ==
    (Validated /\ validate_outcome = "pass")
    => (TablesIsList(semantic_file.doc) /\ semantic_file.doc.tables # << >>)

\* C7: validate passes only when the base_table of every table is a mapping
\* with database, schema and table.
C7_PassRequiresCompleteBaseTable ==
    (Validated /\ validate_outcome = "pass")
    => \A i \in 1..Len(semantic_file.doc.tables) :
          /\ semantic_file.doc.tables[i].base_table.isMap
          /\ semantic_file.doc.tables[i].base_table.bkeys = BaseTableFields

\* The check category of an error, numbered as the categories are listed.
Category(e) ==
    CASE e.kind = "missing_field" -> 1
      [] e.kind = "tables_not_list" -> 2
      [] e.kind = "table_not_dict" -> 3
      [] e.kind = "table_no_name" -> 4
      [] e.kind = "table_no_base" -> 5

\* The defects of a mapping document, one per error message that names it.
Defects(doc) ==
    { Err("missing_field", f, -1, NoName) : f \in RequiredFields \ doc.keys }
    \cup (IF "tables" \in doc.keys /\ doc.tablesKind # "list"
          THEN { Err("tables_not_list", "tables", -1, NoName) } ELSE {})
    \cup { Err("table_not_dict", "", i - 1, NoName) :
             i \in { j \in 1..Len(doc.tables) : ~doc.tables[j].isMap } }
    \cup { Err("table_no_name", "name", i - 1, NoName) :
             i \in { j \in 1..Len(doc.tables) :
                       doc.tables[j].isMap /\ "name" \notin doc.tables[j].tkeys } }
    \cup { Err("table_no_base", "base_table", i - 1,
               IF "name" \in doc.tables[i].tkeys THEN doc.tables[i].name ELSE "unknown") :
             i \in { j \in 1..Len(doc.tables) :
                       doc.tables[j].isMap /\ "base_table" \notin doc.tables[j].tkeys } }

Reported == { validate_errors[k] : k \in 1..Len(validate_errors) }

\* The first category in which the document has a defect.
FirstFailingCategory(doc) ==
    CHOOSE c \in 1..5 :
        /\ \E e \in Defects(doc) : Category(e) = c
        /\ \A e \in Defects(doc) : Category(e) >= c

\* C8 as stated: the errors validate reports are all the defects of the
\* first failing category and no others.
C8_OnlyFirstFailingCategory ==
    (Validated /\ IsMapping(semantic_file.doc) /\ validate_outcome = "fail")
    => Reported = { e \in Defects(semantic_file.doc) :
                      Category(e) = FirstFailingCategory(semantic_file.doc) }

\* Position of an error in the order the checks run: the top-level fields
\* in the order name, description, tables; then the tables value; then the
\* tables by index, for each its mapping check, its name, its base_table.
CheckOrder(e) ==
    CASE e.kind = "missing_field" ->
             (IF e.field = "name" THEN 0 ELSE IF e.field = "description" THEN 1 ELSE 2)
      [] e.kind = "tables_not_list" -> 3
      [] e.kind = "table_not_dict" -> 4 + 3 * e.idx
      [] e.kind = "table_no_name" -> 5 + 3 * e.idx
      [] e.kind = "table_no_base" -> 6 + 3 * e.idx

\* C8 amended: validate reports every defect of every category, each once,
\* in the order the checks run; the categories do not cut each other short.
C8_AllCategoriesInCheckOrder ==
    (Validated /\ IsMapping(semantic_file.doc))
    => (/\ Reported = Defects(semantic_file.doc)
        /\ \A i, j \in 1..Len(validate_errors) :
              i < j => CheckOrder(validate_errors[i]) < CheckOrder(validate_errors[j])
        /\ (validate_outcome = "fail") = (Defects(semantic_file.doc) # {}))

\* C8 witness: validate reported errors of the categories 1, 4 and 5 in one
\* run, on a document without name whose only table lacks both fields.
C8_Witness ==
    /\ Validated
    /\ IsMapping(semantic_file.doc)
    /\ validate_outcome = "fail"
    /\ { Category(e) : e \in Reported } = {1, 4, 5}

\* C9: on every parsed document validate returns pass or fail; no exception
\* leaves it.
C9_ValidateNeverRaises ==
    Validated => (validate_outcome \in {"pass", "fail"} /\ error = "")

\* Every table of the document is a mapping with a name.
AllTablesNamed(doc) ==
    \A i \in 1..Len(doc.tables) : doc.tables[i].isMap /\ "name" \in doc.tables[i].tkeys

\* The tables of the document that have no base_table.
TablesWithoutBase(doc) ==
    { i \in 1..Len(doc.tables) : "base_table" \notin doc.tables[i].tkeys }

\* A document with name, description and a tables sequence of named tables.
WellFormedDoc(doc) ==
    /\ IsMapping(doc)
    /\ RequiredFields \subseteq doc.keys
    /\ doc.tablesKind = "list"
    /\ AllTablesNamed(doc)

\* C10: a well-formed document in which every table has a base_table passes
\* with no error; one in which exactly one table T has none fails with
\* exactly one error, which prints T's name.
C10_OneMissingBaseTableOneError ==
    (Validated /\ WellFormedDoc(semantic_file.doc))
    => LET doc == semantic_file.doc IN
       /\ (TablesWithoutBase(doc) = {})
             => (validate_outcome = "pass" /\ validate_errors = << >> /\ exit_code = 0)
       /\ \A t \in 1..Len(doc.tables) :
             (TablesWithoutBase(doc) = {t})
             => (/\ validate_outcome = "fail"
                 /\ exit_code = 1
                 /\ Len(validate_errors) = 1
                 /\ validate_errors[1].kind = "table_no_base"
                 /\ validate_errors[1].name = doc.tables[t].name)

\* C10 witness: validate failed with one error on a well-formed document
\* whose first table T2 has its base_table and whose second, T1, has none.
C10_Witness ==
    /\ Validated
    /\ WellFormedDoc(semantic_file.doc)
    /\ Len(semantic_file.doc.tables) = 2
    /\ semantic_file.doc.tables[1].name = "T2"
    /\ semantic_file.doc.tables[2].name = "T1"
    /\ TablesWithoutBase(semantic_file.doc) = {2}
    /\ Len(validate_errors) = 1
    /\ validate_errors[1].name = "T1"


(***************************************************************************)
(* Properties: add-table                                                   *)
(***************************************************************************)
\* The document's tables value has an entry whose name is n.
HasTableNamed(doc, n) ==
    /\ doc.top = "map"
    /\ doc.tablesKind = "list"
    /\ \E k \in 1..Len(doc.tables) :
          doc.tables[k].isMap /\ "name" \in doc.tables[k].tkeys /\ doc.tables[k].name = n

\* C11: an add-table run whose name is the name of a table already in the
\* document exits with status 1 and leaves the file on disk (and the backup
\* directory) as it was.
C11_DuplicateNameLeavesFileUnchanged ==
    [][(cmd' = "add-table" /\ semantic_file.st = "ok"
          /\ HasTableNamed(semantic_file.doc, add_args'.name))
       => (exit_code' = 1 /\ semantic_file' = semantic_file /\ backups' = backups)]_vars

\* An add-table run was refused because the name is in the document.
C11_Witness ==
    /\ cmd = "add-table"
    /\ exit_code = 1
    /\ error = "SystemExit"
    /\ semantic_file.st = "ok"
    /\ HasTableNamed(semantic_file.doc, add_args.name)

\* The document is a mapping whose tables value, when there is one, is a
\* list of mappings: what add_table can iterate and append to.
Appendable(doc) ==
    /\ doc.top = "map"
    /\ doc.tablesKind \in {"absent", "list"}
    /\ \A k \in 1..Len(doc.tables) : doc.tables[k].isMap

\* new is old with exactly one table appended at the end.
OneTableAppended(old, new) ==
    /\ Len(new.tables) = Len(old.tables) + 1
    /\ SubSeq(new.tables, 1, Len(old.tables)) = old.tables
    /\ new.tablesKind = "list"
    /\ new.keys \ {"tables"} = old.keys \ {"tables"}
    /\ "tables" \in new.keys
    /\ [new EXCEPT !.tables = old.tables, !.tablesKind = old.tablesKind,
                   !.keys = old.keys] = old

\* t is the empty table entry add_table builds from the arguments a.
IsNewEntryFor(t, a) ==
    /\ t.isMap
    /\ {"name", "base_table", "dimensions", "time_dimensions", "measures"} \subseteq t.tkeys
    /\ t.name = a.name
    /\ t.base_table.isMap
    /\ t.base_table.bkeys = {"database", "schema", "table"}
    /\ t.base_table.vals =
          [database |-> a.database, schema |-> a.schema, table |-> a.table]
    /\ \A f \in ListFields : t.lens[f] = 0

\* C12: an add-table run with a name not yet in the document appends exactly
\* one entry at the end of tables, with the given name and base_table and
\* empty dimensions, time_dimensions and measures; the tables that were
\* there, their order and every other top-level key are as before.
C12_AddTableAppendsOneEntry ==
    [][(cmd' = "add-table" /\ semantic_file.st = "ok"
          /\ Appendable(semantic_file.doc)
          /\ ~HasTableNamed(semantic_file.doc, add_args'.name))
       => /\ exit_code' = 0
          /\ semantic_file'.st = "ok"
          /\ OneTableAppended(semantic_file.doc, semantic_file'.doc)
          /\ IsNewEntryFor(semantic_file'.doc.tables[Len(semantic_file'.doc.tables)],
                           add_args')]_vars

\* A table was added behind two tables that were already there.
C12_Witness ==
    /\ cmd = "add-table"
    /\ exit_code = 0
    /\ semantic_file.st = "ok"
    /\ Len(semantic_file.doc.tables) = 3
    /\ semantic_file.doc.tables[3].name = "T3"
    /\ semantic_file.doc.tables[1].name = "T1"
    /\ "name" \in semantic_file.doc.keys

\* Every table of the file has a non-empty name and no two share one.
NamesNonEmptyAndUnique(f) ==
    f.st = "ok" =>
        /\ \A k \in 1..Len(f.doc.tables) :
              /\ f.doc.tables[k].isMap
              /\ "name" \in f.doc.tables[k].tkeys
              /\ f.doc.tables[k].name # ""
        /\ \A i, j \in 1..Len(f.doc.tables) :
              i # j => f.doc.tables[i].name # f.doc.tables[j].name

\* C13: when all table names of the document are non-empty and pairwise
\* distinct, they still are after any add-table run.
C13_AddTableKeepsNamesNonEmptyAndUnique ==
    [][(cmd' = "add-table" /\ NamesNonEmptyAndUnique(semantic_file))
       => NamesNonEmptyAndUnique(semantic_file')]_vars

(***************************************************************************)
(* Properties: the backup of split                                         *)
(***************************************************************************)
\* C14: the backup is written only by a split run that finds none, as a copy
\* of the input of that run; a backup that exists is never changed again,
\* whatever the input has become.
C14_BackupWrittenOnce ==
    [][/\ backup_file.st # "missing" => backup_file' = backup_file
       /\ backup_file' # backup_file
            => cmd' = "split" /\ backup_file.st = "missing" /\ backup_file' = input_file]_vars

\* A split run succeeded on an input that differs from the backup an
\* earlier run made.
C14_Witness ==
    /\ cmd = "split"
    /\ exit_code = 0
    /\ split_of = input_file
    /\ backup_file.st = "ok"
    /\ backup_file # StaleOutput
    /\ backup_file # input_file

(***************************************************************************)
(* Properties: ci-deploy                                                   *)
(***************************************************************************)
CiOrder == << "validate", "deploy", "verify" >>

\* C15: ci-deploy goes through validate, deploy, verify in this order and
\* ends at the first step that fails: no deploy after a failed validation,
\* no verify after a failed deploy, and status 0 only after three
\* successful steps.
C15_CiDeployStopsAtFirstFailure ==
    cmd = "ci-deploy" =>
        /\ Len(ci_steps) \in 1..3
        /\ \A k \in 1..Len(ci_steps) : ci_steps[k].step = CiOrder[k]
        /\ \A k \in 1..(Len(ci_steps) - 1) : ci_steps[k].ok
        /\ validate_outcome # "pass" => Len(ci_steps) = 1
        /\ exit_code = 0 <=> (Len(ci_steps) = 3 /\ AllStepsOk(ci_steps))

\* The upload failed after a successful validation; verify was not run.
C15_Witness ==
    /\ cmd = "ci-deploy"
    /\ validate_outcome = "pass"
    /\ Len(ci_steps) = 2
    /\ ~ci_steps[2].ok
    /\ exit_code = 1

\* The run failed, at the step that is last in ci_steps.
CiFailed == cmd = "ci-deploy" /\ ci_steps # << >> /\ ~AllStepsOk(ci_steps)

\* C16: two ci-deploy runs that fail at different steps end with different
\* non-zero exit codes.
C16_DistinctExitCodePerFailingStep ==
    [][(CiFailed /\ CiFailed' /\ Len(ci_steps') # Len(ci_steps))
       => (exit_code' # exit_code /\ exit_code # 0 /\ exit_code' # 0)]_vars

(***************************************************************************)
(* Properties: the read-only commands                                      *)
(***************************************************************************)
\* C17: stats ends with status 0 whatever the file holds.
C17_StatsAlwaysExitsZero == cmd = "stats" => exit_code = 0

\* The document has what get_stats reads: a mapping whose tables value,
\* when present, is a list of mappings with no list field set to null.
StatsReadable(doc) ==
    /\ doc.top = "map"
    /\ "tables" \in doc.keys => doc.tablesKind = "list"
    /\ \A k \in 1..Len(doc.tables) :
          /\ doc.tables[k].isMap
          /\ \A f \in ListFields : doc.tables[k].lens[f] >= 0

\* C17 as the code has it: stats ends with status 0 when the file is loaded
\* and has the shape get_stats reads, and with status 1 otherwise.
C17_StatsExitFollowsLoadAndShape ==
    cmd = "stats" =>
        /\ exit_code \in {0, 1}
        /\ exit_code = 0 <=> (semantic_file.st = "ok" /\ StatsReadable(semantic_file.doc))

\* stats ended with status 1 on a file that was loaded.
C17_Witness ==
    /\ cmd = "stats"
    /\ exit_code = 1
    /\ semantic_file.st = "ok"
    /\ semantic_file.doc.top = "map"
    /\ semantic_file.doc.tablesKind = "list"

\* C18: validate, stats and list-tables leave the semantic model file and
\* the backup directory exactly as they were.
C18_ReadOnlyCommandsWriteNothing ==
    [][cmd' \in {"validate", "stats", "list-tables"}
       => (semantic_file' = semantic_file /\ backups' = backups)]_vars

\* A read-only command ran on a file that add-table had saved before.
C18_Witness ==
    /\ cmd \in {"stats", "list-tables"}
    /\ exit_code = 0
    /\ backups # << >>
    /\ semantic_file # backups[Len(backups)]

(***************************************************************************)
(* Properties: the merged document                                         *)
(***************************************************************************)
\* The position of a file name in the sorted order of names.
Rank(n) == CHOOSE k \in 1..Len(FileOrder) : FileOrder[k] = n

\* tables holds the table documents of the files `names` of the directory,
\* one entry per file, in the sorted order of the file names.
TablesAreFiles(tables, dir, names) ==
    /\ Len(tables) = Cardinality(names)
    /\ \A n \in names :
          tables[1 + Cardinality({ m \in names : Rank(m) < Rank(n) })] = dir.files[n].table

\* The table files of the directory: every file but _metadata.yaml.
TableFileNames(dir) == DOMAIN dir.files \ {MetadataName}

\* C19: the tables of the merged document are the table documents of the
\* table files (all files but _metadata.yaml) in the sorted order of the
\* file names, as many and in the same order as the files.
C19_TablesAreAllTableFiles ==
    (cmd = "merge" /\ exit_code = 0)
        => TablesAreFiles(merge_output.doc.tables, schema_dir, TableFileNames(schema_dir))

\* The table files that hold a document.
NonEmptyTableFiles(dir) == { n \in TableFileNames(dir) : dir.files[n].st = "ok" }

\* C19 as the code has it: the tables of the merged document are the table
\* documents of the table files that are not empty, in the sorted order of
\* the file names; an empty table file contributes no entry.
C19_TablesAreNonEmptyTableFiles ==
    (cmd = "merge" /\ exit_code = 0)
        => TablesAreFiles(merge_output.doc.tables, schema_dir, NonEmptyTableFiles(schema_dir))

\* A merge wrote the one table of a directory that holds the metadata file,
\* an empty table file and a table file with a document.
C19_Witness ==
    /\ cmd = "merge"
    /\ exit_code = 0
    /\ DOMAIN schema_dir.files = {"_metadata.yaml", "a.yaml", "b.yaml"}
    /\ schema_dir.files["a.yaml"].st = "empty"
    /\ schema_dir.files["b.yaml"].st = "ok"
    /\ merge_output.doc.tables = << schema_dir.files["b.yaml"].table >>

\* The file holds a document with the key.
FileHasKey(f, key) == f.st = "ok" /\ key \in f.doc.keys

C20_WitnessAbsent ==
    /\ cmd = "merge"
    /\ exit_code = 0
    /\ out_instructions.st = "ok"
    /\ out_verified_queries.st = "ok"
    /\ merge_output.doc.keys \cap OptionalFields = {}

\* The schema directory has a table file with a document and no file that
\* fails to parse, and the optional files parse and hold no null instructions.
MergeInputsLoad ==
    /\ schema_dir.exists
    /\ NonEmptyTableFiles(schema_dir) # {}
    /\ \A n \in DOMAIN schema_dir.files : schema_dir.files[n].st # "bad"
    /\ out_instructions.st # "bad"
    /\ out_verified_queries.st # "bad"
    /\ ~(out_instructions.st = "ok" /\ NullValued(out_instructions.doc, "instructions"))

\* The metadata document has the key.
MetadataHas(key) ==
    /\ schema_dir.exists
    /\ MetadataName \in DOMAIN schema_dir.files
    /\ schema_dir.files[MetadataName].st = "ok"
    /\ key \in schema_dir.files[MetadataName].doc.keys

SplitDone == cmd = "split" /\ exit_code = 0 /\ split_of = input_file

\* The queries read and the queries written by that run.
QueriesIn == input_file.doc.verified_queries

QueriesOut == out_verified_queries.doc.verified_queries

\* Entry by entry, everything but the sql text is as in the input.
OtherFieldsKept ==
    /\ Len(QueriesOut) = Len(QueriesIn)
    /\ \A k \in 1..Len(QueriesIn) :
          /\ [QueriesOut[k] EXCEPT !.sql = QueriesIn[k].sql] = QueriesIn[k]
          /\ ~QueriesIn[k].hasSql => QueriesOut[k] = QueriesIn[k]

\* The text ends with one line break and has no other line break or space
\* right before it.
OneTrailingNewline(t) ==
    /\ t # << >>
    /\ t[Len(t)] = "NL"
    /\ Len(t) > 1 => t[Len(t) - 1] \notin Whitespace

\* The lines of a text that ends with one line break.
LinesOf(t) == SplitLines(SubSeq(t, 1, Len(t) - 1))

\* The lines of the input text, escaped newlines taken as line breaks, each
\* without its trailing whitespace.
TrimmedLines(s) ==
    LET lines == SplitLines(ReplaceEscapedNewlines(s))
    IN  [k \in 1..Len(lines) |-> RStrip(lines[k])]

RECURSIVE DropLastBlank(_)
\* The lines without the empty lines at the end.
DropLastBlank(lines) ==
    IF lines # << >> /\ lines[Len(lines)] = << >>
    THEN DropLastBlank(SubSeq(lines, 1, Len(lines) - 1))
    ELSE lines

RECURSIVE DropFirstBlank(_)
\* The lines without the empty lines at the start.
DropFirstBlank(lines) ==
    IF lines # << >> /\ lines[1] = << >> THEN DropFirstBlank(Tail(lines)) ELSE lines

\* C22: the sql split writes is the input sql with escaped newlines turned
\* into line breaks, trailing whitespace removed from every line and one
\* trailing newline; the rest of the text, leading whitespace and interior
\* blank lines included, and the other fields of the entry are unchanged.
C22_SqlKeepsLeadingWhitespace ==
    SplitDone =>
        /\ OtherFieldsKept
        /\ \A k \in 1..Len(QueriesIn) :
              QueriesIn[k].hasSql =>
                  /\ OneTrailingNewline(QueriesOut[k].sql)
                  /\ LinesOf(QueriesOut[k].sql) = DropLastBlank(TrimmedLines(QueriesIn[k].sql))

\* C22 as the code has it: in addition the whitespace and the blank lines
\* at the start of the text are removed; the indentation of the later
\* lines and the blank lines between lines stay.
C22_SqlStrippedAtBothEnds ==
    SplitDone =>
        /\ OtherFieldsKept
        /\ \A k \in 1..Len(QueriesIn) :
              QueriesIn[k].hasSql =>
                  LET kept == DropFirstBlank(DropLastBlank(TrimmedLines(QueriesIn[k].sql)))
                  IN  /\ OneTrailingNewline(QueriesOut[k].sql)
                      /\ LinesOf(QueriesOut[k].sql) =
                            [j \in 1..Len(kept) |-> IF j = 1 THEN LStrip(kept[1]) ELSE kept[j]]

\* A split wrote an sql text whose first line lost its indentation while a
\* later line kept its own.
C22_Witness ==
    /\ SplitDone
    /\ QueriesIn[2].sql = << "SP", "n", "NL", "SP" >>
    /\ QueriesOut[2].sql = << "n", "NL" >>

\* C28: a split of a document whose queries came from the split before
\* writes every sql text as it was.
C28_NormalizationIdempotent ==
    [][(cmd' = "split" /\ exit_code' = 0 /\ out_verified_queries.st = "ok"
          /\ input_file.st = "ok" /\ QueriesIn = QueriesOut)
       => out_verified_queries' = out_verified_queries]_vars

\* The second split of a text that the first one had changed: only spaces
\* and line breaks at first, one line break afterwards.
C28_Witness ==
    /\ SplitDone
    /\ QueriesIn = QueriesOut
    /\ QueriesIn[2].sql = << "NL" >>
    /\ backup_file.st = "ok"
    /\ backup_file.doc.verified_queries[2].sql = << "SP", "NL", "NL" >>

(***************************************************************************)
(* Properties: the exit status and the outputs of split                    *)
(***************************************************************************)
\* The four output files as (existence, content) in writing order.
SplitOutputFiles == << out_schema, out_instructions, out_verified_queries, out_readme >>

\* C23: a split run with status 0 has written schema.yaml,
\* instructions.yaml, verified_queries.yaml and README.md; a run in which
\* the load of the input or a write fails has a non-zero status; and when
\* the input does not parse none of the four files is written.
C23_SplitExitFollowsOutputs ==
    [][cmd' = "split" =>
         /\ exit_code' = 0 =>
               /\ out_schema'.st = "ok" /\ out_schema'.doc.tables = input_file.doc.tables
               /\ out_instructions'.st = "ok"
               /\ out_instructions'.doc.instructions = input_file.doc.instructions
               /\ out_verified_queries'.st = "ok"
               /\ Len(out_verified_queries'.doc.verified_queries)
                     = Len(input_file.doc.verified_queries)
               /\ out_readme'.exists /\ out_readme'.model = input_file.doc.name
         /\ (input_file.st # "ok" \/ error' # "") => exit_code' # 0
         /\ input_file.st # "ok" => SplitOutputFiles' = SplitOutputFiles]_vars

\* A split run failed on an input that does not parse; the backup was made
\* and no output file is there.
C23_Witness ==
    /\ cmd = "split"
    /\ exit_code = 1
    /\ input_file.st = "bad"
    /\ error = "YAMLError"
    /\ backup_file = input_file
    /\ out_schema.st = "missing"
    /\ ~out_readme.exists

(***************************************************************************)
(* Properties: the orchestrator                                            *)
(***************************************************************************)
\* C24: every JSON object posted to /api/v1/query is answered 200 with the
\* status "not_implemented" and the posted object as `received`, whatever
\* was posted before.
C24_QueryEchoesPayload ==
    http.request.kind = "object" =>
        /\ http.response.code = 200
        /\ http.response.status = "not_implemented"
        /\ http.response.received = http.request

\* The same object was answered with itself after a different request.
C24_Witness ==
    /\ http.request.kind = "object"
    /\ DOMAIN http.request.fields = {"query", "user_id"}
    /\ http.previous.kind = "object"
    /\ http.previous # http.request
    /\ http.response.received = http.request

(***************************************************************************)
(* Properties: the sessions of SnowflakeDeployer                           *)
(***************************************************************************)
\* C25: every statement of deploy, verify and list_versions goes to a
\* session that is open; an operation that follows another one in the same
\* process does not use the session the first one closed.
C25_StatementsOnOpenSession ==
    \A k \in 1..Len(deployer.statements) : deployer.statements[k].session = "open"

(***************************************************************************)
(* Properties: the sessions of the service wrappers                        *)
(***************************************************************************)
\* The sessions the wrappers hold.
HeldSessions(c) == { c._session[w] : w \in Wrappers } \ {0}

\* C26: a wrapper has no session until its first operation; an operation
\* reuses the session the wrapper holds and creates one only when it holds
\* none; close and the end of a with-block close the session and reset the
\* handle, so that the next operation creates a fresh session; close
\* without a session changes nothing; the open sessions are exactly the
\* ones held, at most one per wrapper.
C26_WrapperSessionLifecycle ==
    [][LET w == cortex'.call.wrapper
           op == cortex'.call.op
           old == cortex._session[w]
           new == cortex'._session[w]
       IN  /\ \A v \in Wrappers \ {w} : cortex'._session[v] = cortex._session[v]
           /\ cortex'.open = HeldSessions(cortex')
           /\ \A u, v \in Wrappers :
                 u # v /\ cortex'._session[u] # 0 => cortex'._session[u] # cortex'._session[v]
           /\ op = "operation" /\ old # 0 => new = old /\ cortex'.created = cortex.created
           /\ op = "operation" /\ old = 0 /\ new # 0
                 => new \notin 1..cortex.created /\ cortex'.created = cortex.created + 1
           /\ op \in {"close", "__exit__"}
                 => new = 0 /\ cortex'.open = cortex.open \ {old}
                            /\ cortex'.created = cortex.created
           /\ op = "close" /\ old = 0 => cortex'.open = cortex.open
           /\ op = "__enter__" => new = old /\ cortex'.open = cortex.open
           /\ op = "__exit__" => w \in cortex.in_with /\ w \notin cortex'.in_with]_vars

\* A wrapper works on its second session after a close, while another
\* wrapper holds the session it created in between.
C26_Witness ==
    /\ cortex.call = [wrapper |-> "CortexComplete", op |-> "operation"]
    /\ cortex._session["CortexComplete"] = 3
    /\ cortex._session["CortexSearch"] = 2
    /\ cortex.open = {2, 3}
    /\ cortex.created = 3

(***************************************************************************)
(* Properties: the merged document and validate                            *)
(***************************************************************************)
\* A merge succeeded and wrote merge_output.
MergeDone == cmd = "merge" /\ exit_code = 0 /\ merge_output.st = "ok"

\* C27: every document a successful merge writes passes validate.
C27_MergedDocumentPassesValidate ==
    MergeDone => Validate(merge_output.doc).outcome = "pass"

\* Every table file that holds a document holds a mapping with name and
\* base_table.
TableFilesComplete(dir) ==
    \A n \in NonEmptyTableFiles(dir) :
        dir.files[n].table.isMap /\ {"name", "base_table"} \subseteq dir.files[n].table.tkeys

\* C27 as the code has it: the document a successful merge writes has name,
\* description and a non-empty tables sequence, and it passes validate
\* exactly when every non-empty table file holds a mapping with name and
\* base_table; the merge does not look into the table documents.
C27_MergedDocumentPassesIffTablesComplete ==
    MergeDone =>
        /\ RequiredFields \subseteq merge_output.doc.keys
        /\ merge_output.doc.tablesKind = "list"
        /\ merge_output.doc.tables # << >>
        /\ Validate(merge_output.doc).outcome \in {"pass", "fail"}
        /\ Validate(merge_output.doc).outcome = "pass" <=> TableFilesComplete(schema_dir)

\* A merge succeeded on a complete table file and one without base_table;
\* validate rejects what it wrote.
C27_Witness ==
    /\ MergeDone
    /\ Len(merge_output.doc.tables) = 2
    /\ merge_output.doc.tables[1] = ValidTable("T1")
    /\ "base_table" \notin merge_output.doc.tables[2].tkeys
    /\ Validate(merge_output.doc).outcome = "fail"

\* C29: a split run leaves the content at the --input path as it was, wherever
\* that path lies, the three files split writes included.
C29_SplitKeepsInput == [][cmd' = "split" => input_file' = input_file]_vars

\* A successful split run whose input was the schema.yaml of the output
\* directory: the file now holds the schema part only.
C29_InputOverwritten ==
    /\ cmd = "split" /\ exit_code = 0
    /\ input_path = "schema.yaml"
    /\ input_file = out_schema
    /\ input_file # split_of

\* C30: a run that overwrites the semantic model file leaves a backup file
\* that holds the content the file had before the overwrite; without that
\* backup the file is not overwritten.
C30_OverwriteLeavesBackup ==
    [][semantic_file' # semantic_file
       => (backups' # << >> /\ backups'[Len(backups')] = semantic_file)]_vars

\* An add-table run that ended with exit 0 and a new table in the file,
\* and no backup file at all.
C30_OverwrittenWithoutBackup ==
    /\ cmd = "add-table" /\ exit_code = 0
    /\ semantic_file.st = "ok"
    /\ backups = << >>

=============================================================================
